---------------------------- MODULE Spec2Model ----------------------------
(***************************************************************************)
(* QIDI auto Z-offset (klipper_module/qidi_auto_z_offset): the two module  *)
(* variants auto_z_offset.py ("full") and auto_z_offset_lite.py ("lite").  *)
(*                                                                         *)
(* Three specifications share the definitions below:                       *)
(*   SpecGuard  ZStepperCurrentHelper alone, under arbitrary call          *)
(*              sequences of reduce(), restore() and _hold assignments;    *)
(*   Spec       the G-code commands of both variants, one step per         *)
(*              external call (gcode script, toolhead move, probing move), *)
(*              each of which may raise;                                   *)
(*   SpecProbe  AutoZOffsetSessionHelper.run_probe of the full variant.    *)
(*                                                                         *)
(* Numbers are fixed point.  Currents and accelerations are counted in     *)
(* 1e-4 of their unit, one decimal more than the "%.3f" of the commands    *)
(* that carry them, so that the formatting is a rounding and not the       *)
(* identity.                                                               *)
(***************************************************************************)
EXTENDS Integers, Sequences, FiniteSets, TLC

VARIABLES
    \* ---- ZStepperCurrentHelper
    saved,          \* _saved_currents / _saved: nominal run_current per Z stepper,
                    \* in discovery (dict insertion) order
    is_reduced,     \* _is_reduced
    hold,           \* _hold
    driver,         \* run current each TMC driver was last set to
    log,            \* external calls issued by the running command (or guard calls)
    calls,          \* SpecGuard: one record per finished guard call
    \* ---- configuration (fixed after construction)
    variant,        \* "full": auto_z_offset.py, "lite": auto_z_offset_lite.py
    probe_accel,    \* probe_accel, 0 disables the override
    offset_samples, \* offset_samples >= 1
    z_offset,       \* z_offset (air gap)
    \* ---- machine state the commands change
    skip_prepare,   \* endstop_wrapper.skip_prepare / _skip_prepare
    max_accel,      \* toolhead max_accel
    old_accel,      \* old_max_accel (full) / old_accel (lite); None = -1
    last_z,         \* last_z_result (full) / last_bed_z (lite)
    calibrated_z_offset,  \* a rational [num, den], in 1e-3 mm
    gcode_offset,   \* gcode_move.homing_position[2], in 1e-6 mm
    config_value,   \* configfile.set(name, "calibrated_z_offset", ...), in 1e-6 mm
    \* ---- the running command
    top,            \* the G-code command being run, or "idle"
    pc,             \* its position
    exc,            \* an exception is propagating
    run_i,          \* cmd_calibrate: runs completed
    offset_total,   \* cmd_calibrate: offset_total / total
    bed_z,          \* value the bed-sensor probe returns
    ret,            \* value cmd_measure_offset returns
    session_moves,  \* probing moves of the running bed-sensor probe
    \* ---- history, read by the properties only
    fault,          \* the first call that raised in the running command
    nfaults,        \* calls that raised in the running command
    ncmds,          \* commands dispatched so far
    m_pre_reduced,  \* is_reduced when the running measure_offset was called
    m_pre_accel,    \* max_accel when the running measure_offset was called
    runs,           \* values the measure_offset calls of the running command returned
    pre_cal,        \* calibrated_z_offset when the running command was called
    loaded,         \* values load_offset applied since the last calibrate or save
    bed_fresh,      \* last_z was recorded in the running measure_offset run or command
    \* ---- the toolhead
    follow,         \* whether the specification follows the toolhead's moves
                    \* (SpecMotion, SpecProbe) or leaves them out (the others)
    pos,            \* toolhead.get_position(): [x, y, z], in 1e-3 mm
    path,           \* manual_move calls of the running command; in run_probe
                    \* the latest retract of the call
    probexy,        \* run_probe: probexy
    \* ---- AutoZOffsetSessionHelper.run_probe: parameters
    sample_count,   \* params["samples"]
    samples_tolerance,          \* params["samples_tolerance"], in 1e-3 mm
    samples_tolerance_retries,  \* params["samples_tolerance_retries"]
    samples_result, \* params["samples_result"]: "average" or "median"
    probe_z_offset, \* self.probe_z_offset, in 1e-3 mm
    \* ---- run_probe: locals and results
    rp_pc,          \* position of run_probe
    positions,      \* positions (their z, in 1e-3 mm)
    retries,        \* retries
    results,        \* self.results (rationals [num, den], in 1e-3 mm)
    \* ---- run_probe: history, read by the properties only
    moves,          \* probing moves that returned in this call
    retracts,       \* retract moves made in this call
    raw_min,        \* lowest z of those probing moves
    raw_max,        \* highest z of those probing moves
    attempt,        \* z of the probing moves since the last discard
    sample          \* z of the latest probing move

guard_vars == <<saved, is_reduced, hold, driver, log, calls>>
config_vars == <<variant, probe_accel, offset_samples, z_offset>>
machine_vars == <<skip_prepare, max_accel, old_accel, last_z,
                  calibrated_z_offset, gcode_offset, config_value>>
cmd_vars == <<top, pc, exc, run_i, offset_total, bed_z, ret, session_moves>>
hist_vars == <<fault, nfaults, ncmds, m_pre_reduced, m_pre_accel, runs,
               pre_cal, loaded, bed_fresh>>

session_vars == <<sample_count, samples_tolerance, samples_tolerance_retries,
                  samples_result, probe_z_offset, rp_pc, positions, retries,
                  results, moves, retracts, raw_min, raw_max, attempt,
                  sample>>

motion_vars == <<follow, pos, path, probexy>>

vars == <<guard_vars, config_vars, machine_vars, cmd_vars, hist_vars,
          session_vars, motion_vars>>

-----------------------------------------------------------------------------
(* Bounds of the model *)

MaxSteppers == 2    \* Z steppers discovered at klippy:ready
MaxCalls == 5       \* guard calls in one SpecGuard behaviour
MaxCmds == 2        \* G-code commands in one Spec behaviour
MaxOffsetCmds == 3  \* G-code commands in one SpecOffsets behaviour
MaxMotionCmds == 1  \* G-code commands in one SpecMotion behaviour
MaxOffsetSamples == 2   \* offset_samples
MaxSessionMoves == 2    \* probing moves of one bed-sensor probe (full)
MaxSamples == 4     \* params["samples"] of run_probe
MaxRetries == 2     \* params["samples_tolerance_retries"] of run_probe

-----------------------------------------------------------------------------
(* Fixed point helpers *)

\* probe_current_factor=0.33 / factor=0.33, in percent
FactorPct == 33

\* "%.3f" % (num/den) for a value num/den >= 0 counted in 1e-4: the nearest
\* multiple of 1e-3, i.e. of 10.  (Inputs are chosen off the exact ties.)
Fmt3(num, den) == ((2 * num + 10 * den) \div (20 * den)) * 10

\* run_current that _handle_ready / _on_ready reads from the i-th TMC Z driver.
\* TMC drivers report the current computed from their register bits, which
\* need not be a whole number of milliamps.
NominalCurrent(i) == CASE i = 1 -> 8000
                       [] i = 2 -> 7954
                       [] OTHER -> 12004

SavedCurrents(n) == [i \in 1..n |-> NominalCurrent(i)]

-----------------------------------------------------------------------------
(* ZStepperCurrentHelper *)

\* One external call: k its kind, s the stepper (0: none), v its value
\* (0: none), ok whether it returned normally
Ev(k, s, v, ok) == [k |-> k, s |-> s, v |-> v, ok |-> ok]

SetCurrent(i, value, ok) == Ev("SET_TMC_CURRENT", i, value, ok)

\* The value reduce() commands for stepper i
ReducedValue(sv, i) == Fmt3(sv[i] * FactorPct, 100)

\* The value restore() commands for stepper i
NominalValue(sv, i) == Fmt3(sv[i], 1)

\* A reduce() that never returns early
reduce_always(reduced) == FALSE

\* A restore() that returns early only when the currents are not reduced
restore_ignoring_hold(reduced, held) == ~reduced

\* reduce(): "if self._is_reduced: return"
reduce_returns_early(reduced) == reduced

\* restore(): "if not self._is_reduced or self._hold: return"
restore_returns_early(reduced, held) == (~reduced) \/ held

\* A loop over the saved currents that issues values[i] for every stepper i,
\* the f-th command raising (f = 0: none raises).  A command that raises is
\* issued but leaves its driver as it was.
IssueAll(values, drv, f) ==
    LET n == Len(values)
        last == IF f = 0 THEN n ELSE f
    IN  [cmds   |-> [i \in 1..last |-> SetCurrent(i, values[i], i # f)],
         driver |-> [i \in 1..n |-> IF i < (IF f = 0 THEN n + 1 ELSE f)
                                     THEN values[i] ELSE drv[i]],
         raised |-> f # 0]

\* The values reduce() and restore() command, stepper by stepper
ReducedValues(sv) == [i \in 1..Len(sv) |-> ReducedValue(sv, i)]

NominalValues(sv) == [i \in 1..Len(sv) |-> NominalValue(sv, i)]

\* reduce(), its f-th set-current command raising (0: none)
reduce(sv, reduced, drv, f) ==
    IF reduce_returns_early(reduced)
    THEN [is_reduced |-> reduced, driver |-> drv, cmds |-> <<>>, raised |-> FALSE]
    ELSE LET r == IssueAll(ReducedValues(sv), drv, f)
         IN  [is_reduced |-> IF r.raised THEN reduced ELSE TRUE,
              driver |-> r.driver, cmds |-> r.cmds, raised |-> r.raised]

\* restore(), its f-th set-current command raising (0: none)
restore(sv, reduced, held, drv, f) ==
    IF restore_returns_early(reduced, held)
    THEN [is_reduced |-> reduced, driver |-> drv, cmds |-> <<>>, raised |-> FALSE]
    ELSE LET r == IssueAll(NominalValues(sv), drv, f)
         IN  [is_reduced |-> IF r.raised THEN reduced ELSE FALSE,
              driver |-> r.driver, cmds |-> r.cmds, raised |-> r.raised]

(* ---- ZStepperCurrentHelper of auto_z_offset_lite.py, on the same state ---- *)

\* The value its reduce() commands for stepper i: "%.3f" % (cur * self.factor)
LiteReducedValue(sv, i) == Fmt3(sv[i] * FactorPct, 100)

\* The value its restore() commands for stepper i: "%.3f" % cur
LiteNominalValue(sv, i) == Fmt3(sv[i], 1)

\* reduce(): "if self._is_reduced: return"
lite_reduce_returns_early(reduced) == reduced

\* A restore() that does not look at _hold
lite_restore_when_held(reduced, held) == ~reduced

\* restore(): "if not self._is_reduced or self._hold: return"
lite_restore_returns_early(reduced, held) == (~reduced) \/ held

\* "for name, cur in self._saved.items(): run_script_from_command(...)", the
\* f-th command raising (f = 0: none)
LiteIssue(sv, i, reduced_value, f) ==
    SetCurrent(i, IF reduced_value THEN LiteReducedValue(sv, i)
                  ELSE LiteNominalValue(sv, i), i # f)

LiteLoop(sv, drv, reduced_value, f) ==
    LET done == IF f = 0 THEN Len(sv) ELSE f - 1
    IN  [cmds   |-> [i \in 1..(IF f = 0 THEN Len(sv) ELSE f) |->
                        LiteIssue(sv, i, reduced_value, f)],
         driver |-> [i \in 1..Len(sv) |->
                        IF i <= done THEN LiteIssue(sv, i, reduced_value, f).v
                        ELSE drv[i]]]

lite_reduce(sv, reduced, drv, f) ==
    IF lite_reduce_returns_early(reduced)
    THEN [is_reduced |-> reduced, driver |-> drv, cmds |-> <<>>, raised |-> FALSE]
    ELSE LET r == LiteLoop(sv, drv, TRUE, f)
         IN  [is_reduced |-> (f = 0) \/ reduced, driver |-> r.driver,
              cmds |-> r.cmds, raised |-> f # 0]

lite_restore(sv, reduced, held, drv, f) ==
    IF lite_restore_returns_early(reduced, held)
    THEN [is_reduced |-> reduced, driver |-> drv, cmds |-> <<>>, raised |-> FALSE]
    ELSE LET r == LiteLoop(sv, drv, FALSE, f)
         IN  [is_reduced |-> (f # 0) /\ reduced, driver |-> r.driver,
              cmds |-> r.cmds, raised |-> f # 0]

\* The failure points a call can have: none when it returns early
FailPoints(early, sv) == IF early THEN {0} ELSE 0..Len(sv)

-----------------------------------------------------------------------------
(* The G-code commands.  Every gcode script, toolhead move and probing move *)
(* is one step, which returns normally or raises.                           *)

Commands == {"AUTO_Z_PROBE", "AUTO_Z_HOME_Z", "AUTO_Z_MEASURE_OFFSET",
             "AUTO_Z_CALIBRATE", "AUTO_Z_LOAD_OFFSET", "AUTO_Z_SAVE_GCODE_OFFSET"}

\* The machine of Spec: the TMC-driven Z steppers klippy:ready discovers
ZSteppers == <<"stepper_z", "stepper_z1">>

\* Inputs: what the sensors and the toolhead report
BedZ == {300, 500}          \* bed-sensor probe results, in 1e-3 mm
InductiveZ == {50}          \* inductive probe results, in 1e-3 mm
\* max_accel at klippy:ready, in 1e-4 mm/s^2: 3000 and 3333.3333 (a limit a
\* macro has scaled, SET_VELOCITY_LIMIT ACCEL={accel * factor})
AccelValues == {30000000, 33333333}
ProbeAccelValues == {0, 500000} \* probe_accel, in 1e-4 mm/s^2: off, 50

\* The nearest integer to a/b, b > 0 (ties away from zero; inputs avoid them)
RoundDiv(a, b) == IF a >= 0 THEN (2 * a + b) \div (2 * b)
                  ELSE -((2 * (-a) + b) \div (2 * b))

\* "%f" / "%.6f" % q for the rational q, counted in 1e-3 mm: a value in 1e-6 mm
Fmt6(q) == RoundDiv(q.num * 1000, q.den)

\* The first handler above the probe, home and measure routines: the finally
\* of cmd_calibrate's loop, or none
Handler == IF top = "AUTO_Z_CALIBRATE" THEN "cal_finally" ELSE "error"

\* cmd_AUTO_Z_PROBE reduces first (the prepare script runs inside
\* run_single_probe); cmd_probe runs the script first
ProbeEntry == IF variant = "lite" THEN "p_prepare" ELSE "p_reduce"

Raised(kind) ==
    /\ fault' = IF nfaults = 0 THEN kind ELSE fault
    /\ nfaults' = nfaults + 1

NoRaise == UNCHANGED <<fault, nfaults>>

(* ---- toolhead moves ---- *)

\* The machine: bed centre (position_max / 2 of stepper_x, stepper_y), the XY
\* offsets of the inductive probe, probe_hop, the lowest Z a probing move
\* travels to, the sample_retract_dist parameter, how far below the trigger
\* height the toolhead halts; in 1e-3 mm
Machine == [center_x |-> 100000, center_y |-> 90000,
            x_offset |-> 25000, y_offset |-> -3000,
            probe_hop |-> 5000, z_min |-> -2000,
            sample_retract_dist |-> 2000, halt_below |-> 20]

\* One toolhead.manual_move: its kind, where the toolhead was, its target,
\* whether it returned normally
Move(k, from, to, ok) == [k |-> k, from |-> from, to |-> to, ok |-> ok]

\* "max(current_z, self.probe_hop)"
SafeZ(current_z, hop) == IF current_z > hop THEN current_z ELSE hop

\* _move_to_center: [center_x, center_y, max(current_z, probe_hop)]
CenterTarget(p) ==
    [x |-> Machine.center_x, y |-> Machine.center_y,
     z |-> SafeZ(p.z, Machine.probe_hop)]

\* _lift_probe / _lift: "current_position[2] += self.probe_hop"
LiftTarget(p) == [p EXCEPT !.z = @ + Machine.probe_hop]

\* The reposition that leaves the inductive probe where the nozzle is
reposition_skipped(p) == p

\* "coord[0] = self.bed_center_x - x_offset; coord[1] = self.bed_center_y -
\* y_offset", Z as it is
RepositionTarget(p) ==
    [x |-> Machine.center_x - Machine.x_offset,
     y |-> Machine.center_y - Machine.y_offset, z |-> p.z]

\* Where the toolhead is after a step that takes it to p, and the moves made
\* once m is added, in a specification that follows the toolhead
Moved(p) == IF follow THEN p ELSE pos

Travelled(m) == IF follow THEN Append(path, m) ELSE path

MoveTarget(kind, p) == CASE kind = "center" -> CenterTarget(p)
                         [] kind = "lift" -> LiftTarget(p)
                         [] OTHER -> RepositionTarget(p)

\* A toolhead move and nothing else: it reaches its target, or raises and
\* leaves the toolhead where it was
PlainCall(at, kind, okpc, failpc) ==
    /\ pc = at
    /\ \E ok \in BOOLEAN :
         /\ log' = Append(log, Ev(kind, 0, 0, ok))
         /\ path' = Travelled(Move(kind, pos, MoveTarget(kind, pos), ok))
         /\ pos' = IF ok THEN Moved(MoveTarget(kind, pos)) ELSE pos
         /\ IF ok THEN pc' = okpc /\ NoRaise /\ exc' = exc
                  ELSE pc' = failpc /\ Raised(kind) /\ exc' = TRUE
    /\ UNCHANGED <<follow, probexy, saved, is_reduced, hold, driver, calls, config_vars, session_vars,
                   machine_vars, top, run_i, offset_total, bed_z, ret,
                   session_moves, ncmds, bed_fresh, runs, pre_cal, loaded, m_pre_reduced, m_pre_accel>>

\* The G-code dispatcher calls the handler of one of the commands cmds, at most
\* max times
DispatchOf(cmds, max) ==
    /\ top = "idle"
    /\ ncmds < max
    /\ \E c \in cmds :
         /\ top' = c
         /\ pc' = CASE c = "AUTO_Z_PROBE" -> ProbeEntry
                    [] c = "AUTO_Z_HOME_Z" -> "h_center"
                    [] c = "AUTO_Z_MEASURE_OFFSET" -> "m_center"
                    [] c = "AUTO_Z_CALIBRATE" -> "cal_clear"
                    [] c = "AUTO_Z_LOAD_OFFSET" -> "load"
                    [] OTHER -> "save"
    /\ ncmds' = ncmds + 1
    /\ m_pre_reduced' = is_reduced
    /\ m_pre_accel' = max_accel
    /\ pre_cal' = calibrated_z_offset
    /\ bed_fresh' = FALSE
    /\ loaded' = IF top' \in {"AUTO_Z_CALIBRATE", "AUTO_Z_SAVE_GCODE_OFFSET"}
                 THEN <<>> ELSE loaded
    /\ UNCHANGED <<motion_vars, guard_vars, config_vars, session_vars, machine_vars, exc, run_i,
                   offset_total, bed_z, ret, session_moves, fault, nfaults,
                   runs>>

Dispatch == DispatchOf(Commands, MaxCmds)

\* The handler returns to the dispatcher, normally or with its error
Return ==
    /\ pc \in {"done", "error"}
    /\ top' = "idle"
    /\ pc' = "idle"
    /\ exc' = FALSE
    /\ log' = <<>>
    /\ fault' = "none"
    /\ nfaults' = 0
    /\ run_i' = 0
    /\ offset_total' = 0
    /\ ret' = 0
    /\ bed_z' = 0
    /\ session_moves' = 0
    /\ m_pre_reduced' = FALSE
    /\ m_pre_accel' = 0
    /\ runs' = <<>>
    /\ pre_cal' = calibrated_z_offset
    /\ bed_fresh' = FALSE
    /\ path' = <<>>
    /\ UNCHANGED <<follow, pos, probexy, saved, is_reduced, hold, driver, calls, config_vars,
                   session_vars, machine_vars, ncmds, loaded>>

(* ---- the bed-sensor probe: cmd_AUTO_Z_PROBE (full), cmd_probe (lite) ---- *)

\* cmd_probe: "if not self._skip_prepare: run_script_from_command(prepare)"
probe_prepare_gcode ==
    /\ pc = "p_prepare"
    /\ IF skip_prepare
       THEN pc' = "p_reduce" /\ log' = log /\ NoRaise /\ exc' = exc
       ELSE \E ok \in BOOLEAN :
              /\ log' = Append(log, Ev("prepare", 0, 0, ok))
              /\ IF ok THEN pc' = "p_reduce" /\ NoRaise /\ exc' = exc
                       ELSE pc' = Handler /\ Raised("prepare") /\ exc' = TRUE
    /\ UNCHANGED <<motion_vars, saved, is_reduced, hold, driver, calls, config_vars, session_vars,
                   machine_vars, top, run_i, offset_total, bed_z, ret,
                   session_moves, ncmds, bed_fresh, runs, pre_cal, loaded, m_pre_reduced, m_pre_accel>>

\* "self.z_current_helper.reduce()" / "self.z_current.reduce()", before the try
probe_reduce ==
    /\ pc = "p_reduce"
    /\ \E f \in FailPoints(reduce_returns_early(is_reduced), saved) :
         LET r == reduce(saved, is_reduced, driver, f)
         IN  /\ is_reduced' = r.is_reduced
             /\ driver' = r.driver
             /\ log' = log \o r.cmds
             /\ IF r.raised
                THEN pc' = Handler /\ Raised("SET_TMC_CURRENT") /\ exc' = TRUE
                ELSE /\ pc' = IF variant = "lite" THEN "p_accel" ELSE "p_begin"
                     /\ NoRaise /\ exc' = exc
    /\ session_moves' = 0
    /\ UNCHANGED <<motion_vars, saved, hold, calls, config_vars, session_vars, machine_vars, top, run_i,
                   offset_total, bed_z, ret, ncmds, bed_fresh, runs, pre_cal, loaded, m_pre_reduced, m_pre_accel>>

\* AutoZOffsetEndstopWrapper.multi_probe_begin, called as the probe session starts
multi_probe_begin ==
    /\ pc = "p_begin"
    /\ IF skip_prepare
       THEN pc' = "p_accel" /\ log' = log /\ NoRaise /\ exc' = exc
       ELSE \E ok \in BOOLEAN :
              /\ log' = Append(log, Ev("prepare", 0, 0, ok))
              /\ IF ok THEN pc' = "p_accel" /\ NoRaise /\ exc' = exc
                       ELSE pc' = "p_finally" /\ Raised("prepare") /\ exc' = TRUE
    /\ UNCHANGED <<motion_vars, saved, is_reduced, hold, driver, calls, config_vars, session_vars,
                   machine_vars, top, run_i, offset_total, bed_z, ret,
                   session_moves, ncmds, bed_fresh, runs, pre_cal, loaded, m_pre_reduced, m_pre_accel>>

\* "if self.probe_accel > 0.": the condition of the acceleration override
accel_override(accel) == accel > 0

\* probe_prepare (full) / the head of _probe_bed_sensor (lite): read max_accel,
\* then "M204 S%.3f" % probe_accel
probe_prepare ==
    /\ pc = "p_accel"
    /\ IF accel_override(probe_accel)
       THEN /\ old_accel' = max_accel
            /\ \E ok \in BOOLEAN :
                 /\ log' = Append(log, Ev("M204", 0, Fmt3(probe_accel, 1), ok))
                 /\ IF ok
                    THEN /\ max_accel' = Fmt3(probe_accel, 1)
                         /\ pc' = "p_move" /\ NoRaise /\ exc' = exc
                    ELSE /\ max_accel' = max_accel
                         /\ pc' = "p_finally" /\ Raised("M204") /\ exc' = TRUE
       ELSE /\ old_accel' = IF variant = "lite" THEN -1 ELSE old_accel
            /\ max_accel' = max_accel
            /\ pc' = "p_move" /\ log' = log /\ NoRaise /\ exc' = exc
    /\ UNCHANGED <<motion_vars, saved, is_reduced, hold, driver, calls, config_vars, session_vars,
                   skip_prepare, last_z, calibrated_z_offset, gcode_offset,
                   config_value, top, run_i, offset_total, bed_z, ret,
                   session_moves, ncmds, bed_fresh, runs, pre_cal, loaded, m_pre_reduced, m_pre_accel>>

\* The trigger heights a probing move reports.  In the full variant the value
\* of a probe is run_probe's result over its samples (probe_session below), not
\* one trigger height, so its single samples are not told apart here.
TriggerZ(v) == IF v = "lite" THEN BedZ ELSE {0}

\* phoming.probing_move(...) (lite) / self._probe(gcmd) (full): the sensor
\* triggers at z, or the move fails
probing_move ==
    /\ pc = "p_move"
    /\ session_moves' = session_moves + 1
    /\ \/ \E z \in TriggerZ(variant) :
            /\ log' = Append(log, Ev("probing_move", 0, 0, TRUE))
            /\ bed_z' = z
            /\ pos' = Moved([pos EXCEPT !.z = z])
            /\ NoRaise /\ exc' = exc
       \/ /\ log' = Append(log, Ev("probing_move", 0, 0, FALSE))
          /\ bed_z' = bed_z
          /\ pos' = Moved([pos EXCEPT !.z = Machine.z_min])
          /\ Raised("probing_move") /\ exc' = TRUE
    /\ pc' = "p_unaccel"
    /\ UNCHANGED <<follow, path, probexy, saved, is_reduced, hold, driver, calls, config_vars, session_vars,
                   machine_vars, top, run_i, offset_total, ret, ncmds, bed_fresh, runs, pre_cal, loaded,
                   m_pre_reduced, m_pre_accel>>

\* Whether the move's cleanup restores the acceleration: "if old_accel is not
\* None" (lite), "if self.probe_accel > 0.0" (full)
accel_restored(v, accel, old) == IF v = "lite" THEN old # -1 ELSE accel > 0

\* The probing move is tried again after it raised
after_move_retry(raised) == "p_session"

\* Where the probe goes on once the move's cleanup is done: a move that raised
\* leaves run_probe / _probe_bed_sensor with its error, no except clause
\* catches it
after_move(raised) == IF raised THEN "p_finally" ELSE "p_session"

\* probe_finish (full) / the finally of _probe_bed_sensor (lite):
\* "M204 S%.3f" % old_accel
probe_finish ==
    /\ pc = "p_unaccel"
    /\ IF accel_restored(variant, probe_accel, old_accel)
       THEN \E ok \in BOOLEAN :
              /\ log' = Append(log, Ev("M204", 0, Fmt3(old_accel, 1), ok))
              /\ IF ok
                 THEN /\ max_accel' = Fmt3(old_accel, 1)
                      /\ NoRaise /\ exc' = exc
                      /\ pc' = after_move(exc)
                 ELSE /\ max_accel' = max_accel
                      /\ Raised("M204") /\ exc' = TRUE
                      /\ pc' = "p_finally"
       ELSE /\ max_accel' = max_accel /\ log' = log /\ NoRaise /\ exc' = exc
            /\ pc' = after_move(exc)
    /\ UNCHANGED <<motion_vars, saved, is_reduced, hold, driver, calls, config_vars, session_vars,
                   skip_prepare, old_accel, last_z, calibrated_z_offset,
                   gcode_offset, config_value, top, run_i, offset_total, bed_z,
                   ret, session_moves, ncmds, bed_fresh, runs, pre_cal, loaded, m_pre_reduced, m_pre_accel>>

\* After a probing move.  lite: _probe_bed_sensor returns the trigger Z.
\* full: run_probe takes another sample, returns its result, or raises
\* "Probe samples exceed samples_tolerance" (SpecProbe has the sampling itself)
probe_session ==
    /\ pc = "p_session"
    /\ IF variant = "lite"
       THEN pc' = "p_finally" /\ bed_z' = bed_z /\ NoRaise /\ exc' = exc
       ELSE \/ /\ session_moves < MaxSessionMoves
               /\ pc' = "p_accel" /\ bed_z' = bed_z /\ NoRaise /\ exc' = exc
            \/ \E z \in BedZ :
                 pc' = "p_finally" /\ bed_z' = z /\ NoRaise /\ exc' = exc
            \/ /\ pc' = "p_finally" /\ bed_z' = bed_z
               /\ Raised("samples_tolerance") /\ exc' = TRUE
    /\ UNCHANGED <<motion_vars, guard_vars, config_vars, session_vars, machine_vars, top, run_i,
                   offset_total, ret, session_moves, ncmds, bed_fresh, runs, pre_cal, loaded, m_pre_reduced,
                   m_pre_accel>>

\* Where the bed-sensor probe returns to
AfterProbe == CASE top = "AUTO_Z_PROBE" -> "done"
                [] top = "AUTO_Z_HOME_Z" -> "h_setpos"
                [] OTHER -> "m_lift"

\* What the probe command records: "z + self.z_offset" of the session's result
\* (full), the raw trigger Z (lite)
RecordedZ(v, z, air_gap) == IF v = "lite" THEN z ELSE z + air_gap

\* The probe's error is dropped and its caller goes on
after_probe_swallow(raised) == AfterProbe

\* Where the probe command goes after its finally: an error raised inside the
\* try leaves the command, and its callers, before anything is recorded
after_probe(raised) == IF raised THEN Handler ELSE AfterProbe

\* "finally: self.z_current_helper.restore()", then the assignment of
\* last_z_result / last_bed_z when nothing raised
probe_restore ==
    /\ pc = "p_finally"
    /\ \E f \in FailPoints(restore_returns_early(is_reduced, hold), saved) :
         LET r == restore(saved, is_reduced, hold, driver, f)
         IN  /\ is_reduced' = r.is_reduced
             /\ driver' = r.driver
             /\ log' = log \o r.cmds
             /\ IF r.raised
                THEN /\ Raised("SET_TMC_CURRENT") /\ exc' = TRUE
                     /\ pc' = Handler /\ last_z' = last_z
                     /\ bed_fresh' = bed_fresh
                ELSE /\ NoRaise /\ exc' = exc
                     /\ pc' = after_probe(exc)
                     /\ last_z' = IF exc THEN last_z
                                  ELSE RecordedZ(variant, bed_z, z_offset)
                     /\ bed_fresh' = IF exc THEN bed_fresh ELSE TRUE
    /\ UNCHANGED <<motion_vars, saved, hold, calls, config_vars, session_vars, skip_prepare, max_accel,
                   old_accel, calibrated_z_offset, gcode_offset, config_value,
                   top, run_i, offset_total, bed_z, ret, session_moves, ncmds,
                   runs, pre_cal, loaded, m_pre_reduced, m_pre_accel>>

(* ---- cmd_AUTO_Z_HOME_Z / cmd_home_z ---- *)

home_move_to_center == PlainCall("h_center", "center", ProbeEntry, "error")

\* toolhead.set_position([x, y, z_offset, e], homing_axes=(0, 1, 2))
home_set_position ==
    /\ pc = "h_setpos"
    /\ pc' = "h_lift"
    /\ log' = Append(log, Ev("set_position", 0, z_offset, TRUE))
    /\ pos' = Moved([pos EXCEPT !.z = z_offset])
    /\ UNCHANGED <<follow, path, probexy, saved, is_reduced, hold, driver, calls, config_vars, session_vars,
                   machine_vars, top, exc, run_i, offset_total, bed_z, ret,
                   session_moves, hist_vars>>

home_lift == PlainCall("h_lift", "lift", "done", "error")

(* ---- cmd_AUTO_Z_MEASURE_OFFSET / cmd_measure_offset ---- *)

measure_move_to_center == PlainCall("m_center", "center", ProbeEntry, Handler)

measure_lift == PlainCall("m_lift", "lift", "m_xy", Handler)

measure_reposition == PlainCall("m_xy", "xy", "m_ind", Handler)

\* The difference taken the other way round
reference_minus_bed(bed, inductive) == inductive - bed

\* "true_offset = self.last_z_result - inductive_probe_result_z"
TrueOffset(bed, inductive) == bed - inductive

\* The value cmd_AUTO_Z_MEASURE_OFFSET / cmd_measure_offset reports with
\* respond_info: "true_offset*-1.0" (full), "offset" (lite)
ReportedOffset(v, true_offset) == IF v = "lite" THEN true_offset ELSE -true_offset

\* probe.run_single_probe(inductive_probe, gcmd) / "PROBE SAMPLES=1", the
\* difference and its report
measure_probe_inductive ==
    /\ pc = "m_ind"
    /\ \/ \E z \in InductiveZ :
            /\ log' = log \o <<Ev("PROBE", 0, z, TRUE),
                                Ev("respond_info", 0,
                                   ReportedOffset(variant, TrueOffset(last_z, z)),
                                   TRUE)>>
            /\ ret' = TrueOffset(last_z, z)
            /\ pos' = Moved([pos EXCEPT !.z = z])
            /\ pc' = "m_lift2" /\ NoRaise /\ exc' = exc
       \/ /\ log' = Append(log, Ev("PROBE", 0, 0, FALSE))
          /\ ret' = ret
          /\ pos' = Moved([pos EXCEPT !.z = Machine.z_min])
          /\ pc' = Handler /\ Raised("PROBE") /\ exc' = TRUE
    /\ UNCHANGED <<follow, path, probexy, saved, is_reduced, hold, driver, calls, config_vars, session_vars,
                   machine_vars, top, run_i, offset_total, bed_z,
                   session_moves, ncmds, bed_fresh, runs, pre_cal, loaded, m_pre_reduced, m_pre_accel>>

\* The last lift, then "return true_offset": to the dispatcher, or into
\* "offset_total += ..." and the next turn of cmd_calibrate's loop
measure_final_lift ==
    /\ pc = "m_lift2"
    /\ \E ok \in BOOLEAN :
         /\ log' = Append(log, Ev("lift", 0, 0, ok))
         /\ path' = Travelled(Move("lift", pos, LiftTarget(pos), ok))
         /\ pos' = IF ok THEN Moved(LiftTarget(pos)) ELSE pos
         /\ IF ~ok
            THEN /\ pc' = Handler /\ Raised("lift") /\ exc' = TRUE
                 /\ UNCHANGED <<run_i, offset_total, m_pre_reduced, m_pre_accel,
                                runs, bed_fresh>>
            ELSE /\ NoRaise /\ exc' = exc
                 /\ runs' = Append(runs, ret)
                 /\ bed_fresh' = FALSE
                 /\ IF top = "AUTO_Z_CALIBRATE"
                    THEN /\ offset_total' = offset_total + ret
                         /\ run_i' = run_i + 1
                         /\ pc' = IF run_i + 1 < offset_samples
                                  THEN "m_center" ELSE "cal_finally"
                         /\ m_pre_reduced' = is_reduced
                         /\ m_pre_accel' = max_accel
                    ELSE /\ pc' = "done"
                         /\ UNCHANGED <<run_i, offset_total, m_pre_reduced,
                                        m_pre_accel>>
    /\ UNCHANGED <<follow, probexy, saved, is_reduced, hold, driver, calls, config_vars,
                   session_vars, machine_vars, top, bed_z, ret, session_moves,
                   ncmds, pre_cal, loaded>>

(* ---- cmd_AUTO_Z_CALIBRATE / cmd_calibrate ---- *)

\* The offset that was active is left in place
offset_kept(active) == active

\* The Z offset "SET_GCODE_OFFSET Z=0 MOVE=0" makes active
ClearedOffset(active) == 0

\* "SET_GCODE_OFFSET Z=0 MOVE=0"
calibrate_clear_offset ==
    /\ pc = "cal_clear"
    /\ \E ok \in BOOLEAN :
         /\ log' = Append(log, Ev("SET_GCODE_OFFSET", 0,
                                  ClearedOffset(gcode_offset), ok))
         /\ IF ok THEN /\ gcode_offset' = ClearedOffset(gcode_offset)
                       /\ pc' = "cal_prepare" /\ NoRaise /\ exc' = exc
                  ELSE /\ gcode_offset' = gcode_offset
                       /\ pc' = "error" /\ Raised("SET_GCODE_OFFSET") /\ exc' = TRUE
    /\ UNCHANGED <<motion_vars, saved, is_reduced, hold, driver, calls, config_vars, session_vars,
                   skip_prepare, max_accel, old_accel, last_z,
                   calibrated_z_offset, config_value, top, run_i, offset_total,
                   bed_z, ret, session_moves, ncmds, bed_fresh, runs, pre_cal, loaded, m_pre_reduced, m_pre_accel>>

\* run_prepare_gcode(), then "skip_prepare = True"
calibrate_prepare ==
    /\ pc = "cal_prepare"
    /\ \E ok \in BOOLEAN :
         /\ log' = Append(log, Ev("prepare", 0, 0, ok))
         /\ IF ok THEN /\ skip_prepare' = TRUE
                       /\ pc' = "cal_reduce" /\ NoRaise /\ exc' = exc
                  ELSE /\ skip_prepare' = skip_prepare
                       /\ pc' = "error" /\ Raised("prepare") /\ exc' = TRUE
    /\ UNCHANGED <<motion_vars, saved, is_reduced, hold, driver, calls, config_vars, session_vars,
                   max_accel, old_accel, last_z, calibrated_z_offset,
                   gcode_offset, config_value, top, run_i, offset_total, bed_z,
                   ret, session_moves, ncmds, bed_fresh, runs, pre_cal, loaded, m_pre_reduced, m_pre_accel>>

\* "reduce()" then "_hold = True", both before the try; then the loop starts
calibrate_reduce_hold ==
    /\ pc = "cal_reduce"
    /\ \E f \in FailPoints(reduce_returns_early(is_reduced), saved) :
         LET r == reduce(saved, is_reduced, driver, f)
         IN  /\ is_reduced' = r.is_reduced
             /\ driver' = r.driver
             /\ log' = log \o r.cmds
             /\ IF r.raised
                THEN /\ hold' = hold
                     /\ pc' = "error" /\ Raised("SET_TMC_CURRENT") /\ exc' = TRUE
                     /\ UNCHANGED <<m_pre_reduced, m_pre_accel>>
                ELSE /\ hold' = TRUE
                     /\ pc' = "m_center" /\ NoRaise /\ exc' = exc
                     /\ m_pre_reduced' = r.is_reduced
                     /\ m_pre_accel' = max_accel
    /\ run_i' = 0
    /\ offset_total' = 0
    /\ UNCHANGED <<motion_vars, saved, calls, config_vars, session_vars, machine_vars, top, bed_z, ret,
                   session_moves, ncmds, runs, pre_cal, loaded, bed_fresh>>

\* "finally: _hold = False; restore(); skip_prepare = False"
calibrate_cleanup ==
    /\ pc = "cal_finally"
    /\ hold' = FALSE
    /\ \E f \in FailPoints(restore_returns_early(is_reduced, FALSE), saved) :
         LET r == restore(saved, is_reduced, FALSE, driver, f)
         IN  /\ is_reduced' = r.is_reduced
             /\ driver' = r.driver
             /\ log' = log \o r.cmds
             /\ IF r.raised
                THEN /\ skip_prepare' = skip_prepare
                     /\ pc' = "error" /\ Raised("SET_TMC_CURRENT") /\ exc' = TRUE
                ELSE /\ skip_prepare' = FALSE
                     /\ pc' = IF exc THEN "error" ELSE "cal_center"
                     /\ NoRaise /\ exc' = exc
    /\ UNCHANGED <<motion_vars, saved, calls, config_vars, session_vars, max_accel, old_accel, last_z,
                   calibrated_z_offset, gcode_offset, config_value, top, run_i,
                   offset_total, bed_z, ret, session_moves, ncmds, bed_fresh, runs, pre_cal, loaded,
                   m_pre_reduced, m_pre_accel>>

calibrate_move_to_center == PlainCall("cal_center", "center", "cal_apply", "error")

\* The average without the inversion of its sign
average_offset_kept(total, n) == [num |-> total, den |-> n]

\* "average_offset = offset_total / self.offset_samples;
\*  self.calibrated_z_offset = average_offset * -1.0"
CalibratedOffset(total, n) == [num |-> -total, den |-> n]

\* The offset added to the active one instead of replacing it
applied_on_top(cal) == gcode_offset + Fmt6(cal)

\* "SET_GCODE_OFFSET Z=%f MOVE=0" % self.calibrated_z_offset: the Z offset the
\* command makes active, in 1e-6 mm
AppliedOffset(cal) == Fmt6(cal)

\* The average written with the sign it had before the inversion
stored_average(cal) == Fmt6([num |-> -cal.num, den |-> cal.den])

\* configfile.set(name, "calibrated_z_offset", "%.6f" % self.calibrated_z_offset)
StoredOffset(cal) == Fmt6(cal)

\* The assignment of calibrated_z_offset, then cmd_AUTO_Z_LOAD_OFFSET:
\* "SET_GCODE_OFFSET Z=%f MOVE=0"
calibrate_apply ==
    /\ pc = "cal_apply"
    /\ calibrated_z_offset' = CalibratedOffset(offset_total, offset_samples)
    /\ \E ok \in BOOLEAN :
         /\ log' = Append(log, Ev("SET_GCODE_OFFSET", 0,
                                  AppliedOffset(calibrated_z_offset'), ok))
         /\ IF ok THEN /\ gcode_offset' = AppliedOffset(calibrated_z_offset')
                       /\ pc' = "cal_store" /\ NoRaise /\ exc' = exc
                  ELSE /\ gcode_offset' = gcode_offset
                       /\ pc' = "error" /\ Raised("SET_GCODE_OFFSET") /\ exc' = TRUE
    /\ UNCHANGED <<motion_vars, saved, is_reduced, hold, driver, calls, config_vars, session_vars,
                   skip_prepare, max_accel, old_accel, last_z, config_value,
                   top, run_i, offset_total, bed_z, ret, session_moves, ncmds, bed_fresh, runs, pre_cal, loaded,
                   m_pre_reduced, m_pre_accel>>

\* _store_z_offset / _store: configfile.set(name, "calibrated_z_offset", "%.6f")
calibrate_store ==
    /\ pc = "cal_store"
    /\ config_value' = StoredOffset(calibrated_z_offset)
    /\ log' = Append(log, Ev("configfile.set", 0,
                             StoredOffset(calibrated_z_offset), TRUE))
    /\ pc' = "done"
    /\ UNCHANGED <<motion_vars, saved, is_reduced, hold, driver, calls, config_vars, session_vars,
                   skip_prepare, max_accel, old_accel, last_z,
                   calibrated_z_offset, gcode_offset, top, exc, run_i,
                   offset_total, bed_z, ret, session_moves, hist_vars>>

(* ---- cmd_AUTO_Z_LOAD_OFFSET, cmd_AUTO_Z_SAVE_GCODE_OFFSET ---- *)

cmd_load_offset ==
    /\ pc = "load"
    /\ \E ok \in BOOLEAN :
         /\ log' = Append(log, Ev("SET_GCODE_OFFSET", 0,
                                  AppliedOffset(calibrated_z_offset), ok))
         /\ IF ok THEN /\ gcode_offset' = AppliedOffset(calibrated_z_offset)
                       /\ loaded' = Append(loaded, AppliedOffset(calibrated_z_offset))
                       /\ pc' = "done" /\ NoRaise /\ exc' = exc
                  ELSE /\ gcode_offset' = gcode_offset
                       /\ loaded' = loaded
                       /\ pc' = "error" /\ Raised("SET_GCODE_OFFSET") /\ exc' = TRUE
    /\ UNCHANGED <<motion_vars, saved, is_reduced, hold, driver, calls, config_vars, session_vars,
                   skip_prepare, max_accel, old_accel, last_z,
                   calibrated_z_offset, config_value, top, run_i, offset_total,
                   bed_z, ret, session_moves, ncmds, bed_fresh, runs, pre_cal,
                   m_pre_reduced, m_pre_accel>>

\* "self.calibrated_z_offset = gcode_move.homing_position[2]", then the store
cmd_save_offset ==
    /\ pc = "save"
    /\ calibrated_z_offset' = [num |-> gcode_offset, den |-> 1000]
    /\ config_value' = StoredOffset(calibrated_z_offset')
    /\ log' = Append(log, Ev("configfile.set", 0,
                             StoredOffset(calibrated_z_offset'), TRUE))
    /\ pc' = "done"
    /\ UNCHANGED <<motion_vars, saved, is_reduced, hold, driver, calls, config_vars, session_vars,
                   skip_prepare, max_accel, old_accel, last_z, gcode_offset,
                   top, exc, run_i, offset_total, bed_z, ret, session_moves,
                   hist_vars>>

\* No command is running
CommandsIdle ==
    /\ top = "idle" /\ pc = "idle" /\ exc = FALSE
    /\ run_i = 0 /\ offset_total = 0 /\ bed_z = 0 /\ ret = 0
    /\ session_moves = 0
    /\ fault = "none" /\ nfaults = 0 /\ ncmds = 0
    /\ m_pre_reduced = FALSE /\ m_pre_accel = 0
    /\ runs = <<>> /\ pre_cal = calibrated_z_offset /\ loaded = <<>>
    /\ bed_fresh = FALSE

\* The toolhead where the printer's homing left it, nothing moved yet
MotionIdle ==
    /\ follow = FALSE
    /\ pos = [x |-> 0, y |-> 0, z |-> 0]
    /\ path = <<>>
    /\ probexy = <<0, 0>>

\* No run_probe is running (Spec and SpecGuard)
SessionIdle ==
    /\ sample_count = 1
    /\ samples_tolerance = 0
    /\ samples_tolerance_retries = 0
    /\ samples_result = "average"
    /\ probe_z_offset = 0
    /\ rp_pc = "idle"
    /\ positions = <<>>
    /\ retries = 0
    /\ results = <<>>
    /\ moves = 0
    /\ retracts = 0
    /\ raw_min = 0
    /\ raw_max = 0
    /\ attempt = <<>>
    /\ sample = 0

\* The state once the module is loaded and klippy:ready has been handled
Init ==
    /\ saved = SavedCurrents(Len(ZSteppers))
    /\ is_reduced = FALSE
    /\ hold = FALSE
    /\ driver = saved
    /\ log = <<>>
    /\ calls = <<>>
    /\ variant \in {"full", "lite"}
    /\ probe_accel \in ProbeAccelValues
    /\ offset_samples \in 1..MaxOffsetSamples
    /\ z_offset = 200
    /\ skip_prepare = FALSE
    /\ max_accel \in AccelValues
    /\ old_accel = -1
    /\ last_z = 0
    /\ calibrated_z_offset = [num |-> 0, den |-> 1]
    /\ gcode_offset = 0
    /\ config_value = -1
    /\ CommandsIdle
    /\ MotionIdle
    /\ SessionIdle

Next ==
    \/ Dispatch \/ Return
    \/ probe_prepare_gcode \/ probe_reduce \/ multi_probe_begin
    \/ probe_prepare \/ probing_move \/ probe_finish \/ probe_session
    \/ probe_restore
    \/ home_move_to_center \/ home_set_position \/ home_lift
    \/ measure_move_to_center \/ measure_lift \/ measure_reposition
    \/ measure_probe_inductive \/ measure_final_lift
    \/ calibrate_clear_offset \/ calibrate_prepare \/ calibrate_reduce_hold
    \/ calibrate_cleanup \/ calibrate_move_to_center \/ calibrate_apply
    \/ calibrate_store
    \/ cmd_load_offset \/ cmd_save_offset

Spec == Init /\ [][Next]_vars

-----------------------------------------------------------------------------
(* SpecMotion: the moving commands, the toolhead followed, from every start *)

\* Where the toolhead is when the command is called, in 1e-3 mm
StartPositions ==
    {[x |-> 0, y |-> 0, z |-> 0], [x |-> 0, y |-> 0, z |-> 8000],
     [x |-> 20000, y |-> 180000, z |-> 1500],
     [x |-> Machine.center_x, y |-> Machine.center_y, z |-> 300]}

MotionCommands == {"AUTO_Z_PROBE", "AUTO_Z_HOME_Z", "AUTO_Z_MEASURE_OFFSET",
                   "AUTO_Z_CALIBRATE"}

MotionInit ==
    /\ saved = SavedCurrents(1)
    /\ is_reduced = FALSE
    /\ hold = FALSE
    /\ driver = saved
    /\ log = <<>>
    /\ calls = <<>>
    /\ variant \in {"full", "lite"}
    /\ probe_accel = 0
    /\ offset_samples = 2
    /\ z_offset = 200
    /\ skip_prepare = FALSE
    /\ max_accel = 30000000
    /\ old_accel = -1
    /\ last_z = 0
    /\ calibrated_z_offset = [num |-> 0, den |-> 1]
    /\ gcode_offset = 0
    /\ config_value = -1
    /\ CommandsIdle
    /\ SessionIdle
    /\ follow = TRUE
    /\ pos \in StartPositions
    /\ path = <<>>
    /\ probexy = <<0, 0>>

DispatchMotion == DispatchOf(MotionCommands, MaxMotionCmds)

MotionNext ==
    \/ DispatchMotion \/ Return
    \/ probe_prepare_gcode \/ probe_reduce \/ multi_probe_begin
    \/ probe_prepare \/ probing_move \/ probe_finish \/ probe_session
    \/ probe_restore
    \/ home_move_to_center \/ home_set_position \/ home_lift
    \/ measure_move_to_center \/ measure_lift \/ measure_reposition
    \/ measure_probe_inductive \/ measure_final_lift
    \/ calibrate_clear_offset \/ calibrate_prepare \/ calibrate_reduce_hold
    \/ calibrate_cleanup \/ calibrate_move_to_center \/ calibrate_apply
    \/ calibrate_store

SpecMotion == MotionInit /\ [][MotionNext]_vars

-----------------------------------------------------------------------------
(* SpecOffsets: load_offset and save_offset from every configured offset *)

\* config.getfloat("calibrated_z_offset", 0.0), in 1e-3 mm
ConfiguredOffsets == {0, -250, 125}

\* gcode_move.homing_position[2] when the printer starts taking commands, in
\* 1e-6 mm
GcodeOffsets == {0, 100000}

OffsetCommands == {"AUTO_Z_LOAD_OFFSET", "AUTO_Z_SAVE_GCODE_OFFSET"}

OffsetsInit ==
    /\ saved = SavedCurrents(Len(ZSteppers))
    /\ is_reduced = FALSE
    /\ hold = FALSE
    /\ driver = saved
    /\ log = <<>>
    /\ calls = <<>>
    /\ variant \in {"full", "lite"}
    /\ probe_accel = 0
    /\ offset_samples = 1
    /\ z_offset = 200
    /\ skip_prepare = FALSE
    /\ max_accel = 30000000
    /\ old_accel = -1
    /\ last_z = 0
    /\ \E c \in ConfiguredOffsets : calibrated_z_offset = [num |-> c, den |-> 1]
    /\ gcode_offset \in GcodeOffsets
    /\ config_value = -1
    /\ CommandsIdle
    /\ MotionIdle
    /\ SessionIdle

DispatchOffsets == DispatchOf(OffsetCommands, MaxOffsetCmds)

OffsetsNext == DispatchOffsets \/ Return \/ cmd_load_offset \/ cmd_save_offset

SpecOffsets == OffsetsInit /\ [][OffsetsNext]_vars

-----------------------------------------------------------------------------
(* SpecGuard: the helper under arbitrary call sequences *)

Call(op, r, from) ==
    [op |-> op, pre_reduced |-> is_reduced, pre_hold |-> hold,
     from |-> from, n |-> Len(r.cmds), raised |-> r.raised]

GuardInit ==
    /\ \E n \in 0..MaxSteppers : saved = SavedCurrents(n)
    /\ is_reduced = FALSE
    /\ hold = FALSE
    /\ driver = saved
    /\ log = <<>>
    /\ calls = <<>>
    /\ variant = "full"
    /\ probe_accel = 0
    /\ offset_samples = 1
    /\ z_offset = 0
    /\ skip_prepare = FALSE
    /\ max_accel = 0
    /\ old_accel = -1
    /\ last_z = 0
    /\ calibrated_z_offset = [num |-> 0, den |-> 1]
    /\ gcode_offset = 0
    /\ config_value = -1
    /\ CommandsIdle
    /\ MotionIdle
    /\ SessionIdle

GuardReduce ==
    /\ Len(calls) < MaxCalls
    /\ \E f \in FailPoints(reduce_returns_early(is_reduced), saved) :
         LET r == reduce(saved, is_reduced, driver, f)
         IN  /\ is_reduced' = r.is_reduced
             /\ driver' = r.driver
             /\ log' = log \o r.cmds
             /\ calls' = Append(calls, Call("reduce", r, Len(log)))
    /\ UNCHANGED <<motion_vars, saved, hold, config_vars, session_vars, machine_vars, cmd_vars, hist_vars>>

GuardRestore ==
    /\ Len(calls) < MaxCalls
    /\ \E f \in FailPoints(restore_returns_early(is_reduced, hold), saved) :
         LET r == restore(saved, is_reduced, hold, driver, f)
         IN  /\ is_reduced' = r.is_reduced
             /\ driver' = r.driver
             /\ log' = log \o r.cmds
             /\ calls' = Append(calls, Call("restore", r, Len(log)))
    /\ UNCHANGED <<motion_vars, saved, hold, config_vars, session_vars, machine_vars, cmd_vars, hist_vars>>

\* "self.z_current_helper._hold = True" / "= False"
GuardSetHold ==
    /\ Len(calls) < MaxCalls
    /\ \E b \in BOOLEAN :
         /\ hold' = b
         /\ calls' = Append(calls, [op |-> "hold", pre_reduced |-> is_reduced,
                                    pre_hold |-> hold, from |-> Len(log),
                                    n |-> 0, raised |-> FALSE])
    /\ UNCHANGED <<motion_vars, saved, is_reduced, driver, log, config_vars, session_vars, machine_vars,
                   cmd_vars, hist_vars>>

GuardNext == GuardReduce \/ GuardRestore \/ GuardSetHold

SpecGuard == GuardInit /\ [][GuardNext]_vars

-----------------------------------------------------------------------------
(* AutoZOffsetSessionHelper.run_probe (SpecProbe): one bed-sensor probe of   *)
(* sample_count probing moves                                                *)

\* Inputs: trigger heights the probing moves report and the parameters of the
\* call, in 1e-3 mm
SampleZ == {1000, 2000, 2100, 5000}
ToleranceValues == {100, 4000}
ProbeZOffsets == {0, 1500}
ResultPolicies == {"average", "median"}

Min2(a, b) == IF a <= b THEN a ELSE b

Max2(a, b) == IF a >= b THEN a ELSE b

RECURSIVE SeqMin(_)
SeqMin(s) == IF Len(s) = 1 THEN s[1] ELSE Min2(s[1], SeqMin(Tail(s)))

RECURSIVE SeqMax(_)
SeqMax(s) == IF Len(s) = 1 THEN s[1] ELSE Max2(s[1], SeqMax(Tail(s)))

RECURSIVE SeqSum(_)
SeqSum(s) == IF s = <<>> THEN 0 ELSE s[1] + SeqSum(Tail(s))

\* A tolerance check that never fires
never_exceeds(zs, tol) == FALSE

\* "if max(z_positions) - min(z_positions) > params['samples_tolerance']"
exceeds_tolerance(zs, tol) == SeqMax(zs) - SeqMin(zs) > tol

\* A retry budget with one retry more
retries_over(r, limit) == r > limit

\* "if retries >= params['samples_tolerance_retries']"
retries_exhausted(r, limit) == r >= limit

\* list.sort(key=_get_pos_z): insertion of z behind the entries that are <= z
RECURSIVE InsertZ(_, _)
InsertZ(s, z) == IF s = <<>> THEN <<z>>
                 ELSE IF z < s[1] THEN <<z>> \o s
                 ELSE <<s[1]>> \o InsertZ(Tail(s), z)

RECURSIVE SortZ(_)
SortZ(s) == IF s = <<>> THEN <<>>
            ELSE InsertZ(SortZ(SubSeq(s, 1, Len(s) - 1)), s[Len(s)])

\* A slice that keeps every sample
keep_all(s) == s

\* "positions[1:-1]"
Trim(s) == SubSeq(s, 2, Len(s) - 1)

\* "[_adjust_pos_z_offset(p, self.probe_z_offset) for p in positions]"
AdjustZ(s, off) == [i \in 1..Len(s) |-> s[i] - off]

\* probe.calc_probe_z_average(positions, method) for a non-empty list: the mean,
\* or for "median" the middle entry, the mean of the two middle entries when
\* the length is even.  A rational [num, den].
calc_probe_z_average(s, method) ==
    LET n == Len(s)
        z == SortZ(s)
        middle == n \div 2
    IN  IF method # "median" THEN [num |-> SeqSum(s), den |-> n]
        ELSE IF n % 2 = 1 THEN [num |-> z[middle + 1], den |-> 1]
        ELSE [num |-> z[middle] + z[middle + 1], den |-> 2]

\* Where its caller has left the toolhead when run_probe is called, in 1e-3 mm
ProbeStarts ==
    {[x |-> Machine.center_x, y |-> Machine.center_y, z |-> 8000],
     [x |-> 20000, y |-> 180000, z |-> 5300]}

\* run_probe is called: the locals before the loop.  The caller has pulled the
\* results of the call before.
run_probe_begin ==
    /\ rp_pc \in {"idle", "done", "fault", "tol_error", "avg_error"}
    /\ rp_pc' = "probe"
    /\ retries' = 0
    /\ positions' = <<>>
    /\ results' = <<>>
    /\ moves' = 0
    /\ retracts' = 0
    /\ raw_min' = 0
    /\ raw_max' = 0
    /\ attempt' = <<>>
    /\ sample' = 0
    /\ \E at \in ProbeStarts :
         /\ pos' = Moved(at)
         /\ probexy' = <<pos'.x, pos'.y>>
    /\ path' = <<>>
    /\ UNCHANGED <<follow, guard_vars, config_vars, machine_vars, cmd_vars, hist_vars,
                   sample_count, samples_tolerance, samples_tolerance_retries,
                   samples_result, probe_z_offset>>

\* Where the toolhead stops in a probing move that triggered at z: it
\* decelerates past the trigger height
HaltZ(z) == z - Machine.halt_below

\* Every probing move is followed by a retract
retract_always(held, count) == TRUE

\* "if len(positions) < sample_count:" before the retract
retract_needed(held, count) == held < count

\* "probexy + [cur_z + params["sample_retract_dist"]]"
RetractTarget(xy, cur_z) ==
    [x |-> xy[1], y |-> xy[2], z |-> cur_z + Machine.sample_retract_dist]

\* Of the retracts of a call the latest is kept
Retracted(m) == IF follow THEN <<m>> ELSE path

\* One pass of the loop up to its retract: the probing move, which may raise,
\* the append and the tolerance check
run_probe_sample ==
    /\ rp_pc = "probe"
    /\ \E ok \in BOOLEAN :
         IF ~ok
         THEN /\ rp_pc' = "fault"
              /\ pos' = Moved([pos EXCEPT !.z = Machine.z_min])
              /\ UNCHANGED <<positions, retries, moves, raw_min, raw_max,
                             attempt, sample>>
         ELSE \E z \in SampleZ :
                LET appended == Append(positions, z)
                    exceeds == exceeds_tolerance(appended, samples_tolerance)
                    raises == exceeds /\ retries_exhausted(retries,
                                             samples_tolerance_retries)
                    discards == exceeds /\ ~raises
                    kept == IF discards THEN <<>> ELSE appended
                IN  /\ sample' = z
                    /\ pos' = Moved([pos EXCEPT !.z = HaltZ(z)])
                    /\ moves' = moves + 1
                    /\ raw_min' = IF moves = 0 THEN z ELSE Min2(raw_min, z)
                    /\ raw_max' = IF moves = 0 THEN z ELSE Max2(raw_max, z)
                    /\ positions' = kept
                    /\ attempt' = kept
                    /\ retries' = IF discards THEN retries + 1 ELSE retries
                    /\ rp_pc' = IF raises THEN "tol_error"
                                ELSE IF retract_needed(Len(kept), sample_count)
                                     THEN "retract"
                                ELSE "trim"
    /\ UNCHANGED <<follow, path, probexy, guard_vars, config_vars, machine_vars, cmd_vars, hist_vars,
                   sample_count, samples_tolerance, samples_tolerance_retries,
                   samples_result, probe_z_offset, results, retracts>>

\* "if len(positions) < sample_count: toolhead.manual_move(...)"
run_probe_retract ==
    /\ rp_pc = "retract"
    /\ retracts' = retracts + 1
    /\ \E ok \in BOOLEAN :
         /\ path' = Retracted(Move("retract", pos,
                                   RetractTarget(probexy, pos.z), ok))
         /\ pos' = IF ok THEN Moved(RetractTarget(probexy, pos.z)) ELSE pos
         /\ rp_pc' = IF ~ok THEN "fault"
                     ELSE IF Len(positions) < sample_count THEN "probe"
                     ELSE "trim"
    /\ UNCHANGED <<follow, probexy, guard_vars, config_vars, machine_vars, cmd_vars, hist_vars,
                   sample_count, samples_tolerance, samples_tolerance_retries,
                   samples_result, probe_z_offset, positions, retries, results,
                   moves, raw_min, raw_max, attempt, sample>>

\* After the loop: sort, slice, subtract the reference probe's z offset and
\* average.  The average of an empty list raises ZeroDivisionError.
run_probe_reduce ==
    /\ rp_pc = "trim"
    /\ LET trimmed == AdjustZ(Trim(SortZ(positions)), probe_z_offset)
       IN  /\ positions' = trimmed
           /\ IF trimmed = <<>>
              THEN rp_pc' = "avg_error" /\ results' = results
              ELSE /\ rp_pc' = "done"
                   /\ results' = Append(results,
                                   calc_probe_z_average(trimmed, samples_result))
    /\ UNCHANGED <<motion_vars, guard_vars, config_vars, machine_vars, cmd_vars, hist_vars,
                   sample_count, samples_tolerance, samples_tolerance_retries,
                   samples_result, probe_z_offset, retries, moves, retracts,
                   raw_min, raw_max, attempt, sample>>

ProbeInit ==
    /\ saved = SavedCurrents(Len(ZSteppers))
    /\ is_reduced = FALSE
    /\ hold = FALSE
    /\ driver = saved
    /\ log = <<>>
    /\ calls = <<>>
    /\ variant = "full"
    /\ probe_accel = 0
    /\ offset_samples = 1
    /\ z_offset = 0
    /\ skip_prepare = FALSE
    /\ max_accel = 0
    /\ old_accel = -1
    /\ last_z = 0
    /\ calibrated_z_offset = [num |-> 0, den |-> 1]
    /\ gcode_offset = 0
    /\ config_value = -1
    /\ CommandsIdle
    /\ follow = TRUE
    /\ pos = [x |-> 0, y |-> 0, z |-> 0]
    /\ path = <<>>
    /\ probexy = <<0, 0>>
    /\ sample_count \in 1..MaxSamples
    /\ samples_tolerance \in ToleranceValues
    /\ samples_tolerance_retries \in 0..MaxRetries
    /\ samples_result \in ResultPolicies
    /\ probe_z_offset \in ProbeZOffsets
    /\ rp_pc = "idle"
    /\ positions = <<>>
    /\ retries = 0
    /\ results = <<>>
    /\ moves = 0
    /\ retracts = 0
    /\ raw_min = 0
    /\ raw_max = 0
    /\ attempt = <<>>
    /\ sample = 0

ProbeNext ==
    \/ run_probe_begin
    \/ run_probe_sample
    \/ run_probe_retract
    \/ run_probe_reduce

SpecProbe == ProbeInit /\ [][ProbeNext]_vars

-----------------------------------------------------------------------------
(* Properties of run_probe (SpecProbe) *)

\* Entries of s below v, and up to v
Below(s, v) == Cardinality({i \in 1..Len(s) : s[i] < v})

UpTo(s, v) == Cardinality({i \in 1..Len(s) : s[i] <= v})

Count(s, v) == Cardinality({i \in 1..Len(s) : s[i] = v})

\* The spread of s is at most tol
Within(s, tol) == \A i, j \in 1..Len(s) : s[i] - s[j] <= tol

\* C7: whenever run_probe returns normally, the samples it reduced come from
\* one attempt of sample_count consecutive probing moves whose spread is at
\* most samples_tolerance.
C7_ReturnsOnlyWithinTolerance ==
    rp_pc = "done" =>
        /\ Len(attempt) = sample_count
        /\ Within(attempt, samples_tolerance)
        /\ positions # <<>>
        /\ \A v \in SampleZ : Count(positions, v - probe_z_offset) <= Count(attempt, v)
        /\ \A i \in 1..Len(positions) : positions[i] + probe_z_offset \in SampleZ

C7_Witness ==
    /\ rp_pc = "done"
    /\ retries >= 1
    /\ raw_max - raw_min > samples_tolerance
    /\ SeqMax(attempt) > SeqMin(attempt)

\* A probing move has returned a sample that puts the spread of the current
\* attempt over samples_tolerance
Detection ==
    /\ rp_pc = "probe"
    /\ moves' = moves + 1
    /\ ~Within(Append(positions, sample'), samples_tolerance)

\* C8: within one run_probe call, a detection made while the retry counter is
\* below samples_tolerance_retries discards all samples collected so far and
\* adds exactly one to the counter, and the counter changes in no other way;
\* a detection made when the counter equals samples_tolerance_retries raises
\* the sampling-tolerance error, after which the call makes no probing move
\* and no retract.
C8_RetryCountsAndRaises ==
    [][/\ Detection =>
            IF retries < samples_tolerance_retries
            THEN /\ positions' = <<>>
                 /\ retries' = retries + 1
                 /\ rp_pc' = "retract"
            ELSE /\ retries = samples_tolerance_retries
                 /\ rp_pc' = "tol_error"
                 /\ retries' = retries
       /\ (~Detection /\ rp_pc \in {"probe", "retract", "trim"})
            => (retries' = retries /\ rp_pc' # "tol_error")
       /\ rp_pc = "tol_error"
            => (rp_pc' \notin {"retract", "trim"} /\ moves' <= moves
                    /\ retracts' <= retracts)
      ]_vars

C8_Witness ==
    /\ rp_pc = "tol_error"
    /\ samples_tolerance_retries >= 1
    /\ retries = samples_tolerance_retries
    /\ moves >= 2 * (samples_tolerance_retries + 1)

\* The accepted samples without one lowest and one highest: how many of them
\* lie below v, and up to v
MiddleBelow(v) == Below(attempt, v) - (IF raw_min < v THEN 1 ELSE 0)
                                    - (IF raw_max < v THEN 1 ELSE 0)

MiddleUpTo(v) == UpTo(attempt, v) - (IF raw_min <= v THEN 1 ELSE 0)
                                  - (IF raw_max <= v THEN 1 ELSE 0)

\* The k-th smallest of them
MiddleKth(k) == CHOOSE v \in SampleZ : MiddleBelow(v) < k /\ k <= MiddleUpTo(v)

\* C9: for every sample_count n >= 3 and tolerance t, if all raw samples of a
\* run_probe call lie within t of each other, the call makes exactly n probing
\* moves, never retries, and its result is the reduction (mean or median, less
\* the reference probe's z offset) of the n - 2 samples left without one lowest
\* and one highest.
C9_InToleranceResultFromMiddle ==
    (rp_pc = "done" /\ sample_count >= 3
        /\ raw_max - raw_min <= samples_tolerance) =>
        LET m == sample_count - 2
            r == results[Len(results)]
        IN  /\ moves = sample_count
            /\ retracts = sample_count - 1
            /\ retries = 0
            /\ Len(results) = 1
            /\ IF samples_result # "median"
               THEN r.num * m = r.den * (SeqSum(attempt) - raw_min - raw_max
                                            - m * probe_z_offset)
               ELSE r.num * 2 = r.den * (MiddleKth((m + 1) \div 2)
                                            + MiddleKth((m + 2) \div 2)
                                            - 2 * probe_z_offset)

C9_Witness ==
    /\ rp_pc = "done"
    /\ sample_count = 4
    /\ raw_max - raw_min <= samples_tolerance
    /\ attempt = <<1000, 5000, 2000, 2100>>
    /\ samples_result = "average"
    /\ probe_z_offset = 0
    /\ results = <<[num |-> 4100, den |-> 2]>>

\* C10: once sample_count samples are accepted, the set handed to the reduction
\* step is the accepted samples less exactly one lowest-z and one highest-z
\* sample, sample_count - 2 of them; for the accepted z values 1.0, 5.0, 2.0,
\* 2.1 it is {2.0, 2.1}.
C10_TrimmedSetHandedToReduction ==
    rp_pc \in {"done", "avg_error"} =>
        /\ Len(positions) = sample_count - 2
        /\ \A v \in SampleZ :
             Count(positions, v - probe_z_offset)
                 = Count(attempt, v) - (IF v = SeqMin(attempt) THEN 1 ELSE 0)
                                     - (IF v = SeqMax(attempt) THEN 1 ELSE 0)
        /\ attempt = <<1000, 5000, 2000, 2100>>
             => positions = AdjustZ(<<2000, 2100>>, probe_z_offset)

\* C11: run_probe never hands an empty sample set to the reduction step: a
\* call with sample_count 1 or 2 is rejected instead of being trimmed down to
\* no sample and averaged.
C11_NeverReducesEmptySet ==
    rp_pc \in {"done", "avg_error"} => positions # <<>>

\* The running run_probe call has ended
CallEnded == rp_pc \in {"done", "tol_error", "fault", "avg_error"}

\* C25: every run_probe call ends by returning a result or by raising the
\* sampling-tolerance error (or a propagated probe fault), after at most
\* (samples_tolerance_retries + 1) x sample_count probing moves, for
\* sample_count >= 1 and samples_tolerance_retries >= 0.
C25_EndsWithinMoveBound ==
    /\ moves <= (samples_tolerance_retries + 1) * sample_count
    /\ CallEnded => rp_pc \in {"done", "tol_error", "fault"}

\* C23: in run_probe a retract follows every probing move after which fewer
\* than sample_count samples are held, also when the set was just discarded
\* for a retry, and never the move that completes the set or the one whose
\* tolerance error is raised; every retract targets the XY read at the start
\* of the call and the toolhead's current Z + sample_retract_dist; a
\* successful call of k probing moves makes exactly k - 1 retracts.
C23_RetractBetweenMoves ==
    /\ rp_pc = "retract" => (Len(positions) < sample_count /\ retracts = moves - 1)
    /\ rp_pc = "probe" => (Len(positions) < sample_count /\ retracts = moves)
    /\ rp_pc \in {"trim", "tol_error"} => retracts = moves - 1
    /\ rp_pc = "trim" => Len(positions) = sample_count
    /\ rp_pc = "done" => (moves >= 1 /\ retracts = moves - 1)
    /\ rp_pc # "idle" => probexy \in {<<at.x, at.y>> : at \in ProbeStarts}
    /\ retracts > 0 =>
          /\ Len(path) = 1
          /\ path[1].k = "retract"
          /\ path[1].to.x = probexy[1] /\ path[1].to.y = probexy[2]
          /\ path[1].to.z = path[1].from.z + Machine.sample_retract_dist
          /\ path[1].from.x = probexy[1] /\ path[1].from.y = probexy[2]
          /\ path[1].from.z \in {HaltZ(z) : z \in SampleZ}
          /\ (rp_pc = "probe" /\ path[1].ok) => pos = path[1].to

C23_Witness ==
    /\ rp_pc = "done" /\ retries = 1 /\ sample_count = 3
    /\ moves = 5 /\ retracts = 4
    /\ path[1].ok /\ path[1].to.z = HaltZ(sample) + Machine.sample_retract_dist
    /\ path[1].to.x = 20000

-----------------------------------------------------------------------------
(* Properties of the guard (SpecGuard) *)

\* The set-current commands the k-th call issued
Issued(k) == SubSeq(log, calls[k].from + 1, calls[k].from + calls[k].n)

\* One set-current command per cached stepper, in order, none raising
AllSet(cmds, values) ==
    /\ Len(cmds) = Len(saved)
    /\ \A i \in 1..Len(saved) : cmds[i] = SetCurrent(i, values[i], TRUE)

\* Calls j < k are two reduce() calls with no reduce() or restore() between
\* them, the first made with the currents not reduced and returning normally
TwoReduces(j, k) ==
    /\ j < k
    /\ calls[j].op = "reduce" /\ calls[k].op = "reduce"
    /\ ~calls[j].pre_reduced /\ ~calls[j].raised
    /\ \A m \in (j + 1)..(k - 1) : calls[m].op = "hold"

\* C4: two consecutive reduce() calls with no restore() between them issue in
\* total one set-current command per cached stepper, carrying nominal x factor
\* (as "%.3f"); the second call issues none and leaves is_reduced true.
C4_ReduceTwiceIssuesOnce ==
    LET k == Len(calls)
    IN  \A j \in 1..k : TwoReduces(j, k) =>
            /\ AllSet(Issued(j) \o Issued(k), ReducedValues(saved))
            /\ calls[k].n = 0 /\ ~calls[k].raised
            /\ is_reduced

C4_Witness ==
    /\ Len(saved) = MaxSteppers
    /\ Len(calls) >= 3
    /\ TwoReduces(Len(calls) - 2, Len(calls))

\* C5: restore() called while hold is true or is_reduced is false issues no
\* set-current command and leaves is_reduced and hold as they were; called with
\* hold false and is_reduced true it issues one set-current per cached stepper,
\* carrying the nominal value (as "%.3f"), and sets is_reduced false.
C5_RestoreNoOpOrNominal ==
    LET k == Len(calls)
    IN  (k >= 1 /\ calls[k].op = "restore") =>
            IF calls[k].pre_hold \/ ~calls[k].pre_reduced
            THEN /\ calls[k].n = 0 /\ ~calls[k].raised
                 /\ is_reduced = calls[k].pre_reduced
                 /\ hold = calls[k].pre_hold
            ELSE ~calls[k].raised =>
                     /\ AllSet(Issued(k), NominalValues(saved))
                     /\ ~is_reduced
                     /\ hold = calls[k].pre_hold

C5_Witness ==
    LET k == Len(calls)
    IN  /\ Len(saved) = MaxSteppers
        /\ k >= 3
        /\ calls[k].op = "restore" /\ ~calls[k].pre_hold
        /\ calls[k].pre_reduced /\ ~calls[k].raised
        /\ \E j \in 1..(k - 1) :
             calls[j].op = "restore" /\ calls[j].pre_hold /\ calls[j].pre_reduced

\* The current stepper i was last set to is its nominal one: the value read at
\* klippy:ready, or the value restore() commands
AtNominal(i) == driver[i] \in {saved[i], NominalValue(saved, i)}

\* C26: in every reachable state, also after a set-current command failed
\* partway through reduce() or restore() with two or more Z steppers,
\* is_reduced = false implies that every cached Z stepper was last set to its
\* nominal current.
C26_NotReducedMeansNominal ==
    ~is_reduced => \A i \in 1..Len(saved) : AtNominal(i)

\* C30: the ZStepperCurrentHelper of the full module and the one of the lite
\* module are equivalent: with the same discovered drivers and factor, every
\* sequence of reduce(), restore() and hold set/clear calls makes them issue
\* the same set-current commands and end with the same (is_reduced, hold).
\* Both start from (false, false); from every state a call sequence reaches,
\* and for every command that may raise, each call gives the same result.
C30_HelpersEquivalent ==
    \A f \in 0..Len(saved) :
        /\ lite_reduce(saved, is_reduced, driver, f)
              = reduce(saved, is_reduced, driver, f)
        /\ lite_restore(saved, is_reduced, hold, driver, f)
              = restore(saved, is_reduced, hold, driver, f)

C30_Witness ==
    /\ Len(saved) = 2 /\ Len(calls) >= 3
    /\ is_reduced /\ hold
    /\ \E k \in 1..Len(calls) : calls[k].raised
    /\ \E i \in 1..Len(saved) : ~AtNominal(i)

-----------------------------------------------------------------------------
(* Properties of the commands (Spec) *)

Last(s) == s[Len(s)]

IsSetCurrent(e) == e.k = "SET_TMC_CURRENT"

IsM204(e) == e.k = "M204"

\* The external calls only the runs of measure_offset make after their move to
\* the reference point
RunEvents == {"probing_move", "lift", "xy", "PROBE"}

\* C1: on every exit path of calibrate, normal or by an error of a command it
\* issued, hold, is_reduced and skip_prepare are all false afterwards.
C1_CalibrateExitRestoresFlags ==
    (top = "AUTO_Z_CALIBRATE" /\ pc \in {"done", "error"})
        => (hold = FALSE /\ is_reduced = FALSE /\ skip_prepare = FALSE)

\* The error of a measure_offset reaches its caller: the dispatcher, or the
\* finally of calibrate's loop
MeasureErrorAtCaller ==
    /\ exc
    /\ \/ top = "AUTO_Z_MEASURE_OFFSET" /\ pc = "error"
       \/ top = "AUTO_Z_CALIBRATE" /\ pc = "cal_finally"

\* C2: when measure_offset raises because its bed probe faulted, its lift or
\* reposition move failed or its reference probe faulted, is_reduced and the
\* acceleration limit are, as the error reaches the caller, what they were
\* when measure_offset was called.
C2_MeasureErrorRestoresGuards ==
    (MeasureErrorAtCaller /\ nfaults = 1
        /\ fault \in {"probing_move", "lift", "xy", "PROBE"})
        => (is_reduced = m_pre_reduced /\ max_accel = m_pre_accel)

\* The bed-sensor probing move and its acceleration cleanup have just run
AfterProbingMove ==
    /\ pc \in {"p_session", "p_finally"}
    /\ Len(log) >= 1
    /\ \/ Last(log).k = "probing_move"
       \/ Len(log) >= 2 /\ IsM204(Last(log)) /\ log[Len(log) - 1].k = "probing_move"

\* C3: after every bed-sensor probing move made with a non-zero probe_accel,
\* triggered or failed, the acceleration limit is the value read just before
\* the override was set; with probe_accel = 0 no acceleration command is issued.
C3_AccelRestoredAfterMove ==
    /\ (AfterProbingMove /\ probe_accel > 0
            /\ \A i \in 1..Len(log) : IsM204(log[i]) => log[i].ok)
        => max_accel = old_accel
    /\ probe_accel = 0 => \A i \in 1..Len(log) : ~IsM204(log[i])

\* C6: a calibrate in which nothing fails issues exactly two set-current
\* commands per Z stepper: the reduced value before the first run, the nominal
\* value after the last run, and none in between.
C6_CalibrateTogglesCurrentOnce ==
    (top = "AUTO_Z_CALIBRATE" /\ pc = "done" /\ nfaults = 0) =>
        LET n == Len(saved)
            cur == SelectSeq(log, IsSetCurrent)
            at == {i \in 1..Len(log) : IsSetCurrent(log[i])}
            run == {i \in 1..Len(log) : log[i].k \in RunEvents}
        IN  /\ Len(cur) = 2 * n
            /\ \A i \in 1..n :
                 /\ cur[i] = SetCurrent(i, ReducedValue(saved, i), TRUE)
                 /\ cur[n + i] = SetCurrent(i, NominalValue(saved, i), TRUE)
            /\ \A i \in at : \A j \in run :
                 IF log[i].v = ReducedValue(saved, log[i].s) THEN i < j ELSE i > j

\* A calibrate has assigned calibrated_z_offset
CalibrateAssigned == top = "AUTO_Z_CALIBRATE" /\ pc \in {"cal_store", "done"}

MeasureComputed == pc = "m_lift2" /\ Len(log) >= 2 /\ log[Len(log) - 1].k = "PROBE"

\* The bed-sensor probing moves of the running measure_offset call: the ones
\* after its move to the reference point
MovesOfThisCall ==
    {i \in 1..Len(log) :
        /\ log[i].k = "probing_move" /\ log[i].ok
        /\ \E c \in 1..(i - 1) : log[c].k = "center"
        /\ \A j \in i..Len(log) : log[j].k # "center"}

\* C13: measure_offset returns true_offset = last bed reading - reference
\* reading, not negated, both readings taken in the same call; the value it
\* returns is the value calibrate adds to its running sum.
C13_ReturnsBedMinusReference ==
    /\ MeasureComputed =>
          /\ ret = last_z - log[Len(log) - 1].v
          /\ last_z = RecordedZ(variant, bed_z, z_offset)
          /\ MovesOfThisCall # {}
    /\ top = "AUTO_Z_CALIBRATE" => offset_total = SeqSum(runs)
    /\ (top = "AUTO_Z_MEASURE_OFFSET" /\ pc = "done") => runs = <<ret>>

C13_Witness ==
    /\ MeasureComputed /\ top = "AUTO_Z_CALIBRATE"
    /\ Len(runs) = 1 /\ ret # runs[1] /\ ret > 0

\* The report measure_offset has just made with respond_info
Reported == Last(log).k = "respond_info"

\* C14: the value measure_offset reports to the user is true_offset x -1, in
\* both variants.
C14_ReportsNegatedOffset ==
    (pc = "m_lift2" /\ Reported) => Last(log).v = -ret

\* C15: the bed reading is the raw trigger Z minus the air gap z_offset: raw
\* 0.50, air gap 0.20 and reference 0.05 mm give true_offset 0.25 mm, and a
\* one-sample calibrate stores -0.25 mm.
C15_BedReadingIsRawMinusAirGap ==
    /\ (MeasureComputed /\ bed_z = 500 /\ z_offset = 200
            /\ log[Len(log) - 1].v = 50) => ret = 250
    /\ (top = "AUTO_Z_CALIBRATE" /\ pc = "done" /\ offset_samples = 1
            /\ bed_z = 500 /\ z_offset = 200 /\ InductiveZ = {50})
          => config_value = -250000

\* Two offsets of the same value
SameOffset(a, b) == a.num * b.den = b.num * a.den

\* The running command has written calibrated_z_offset to the config
ConfigWritten == \E i \in 1..Len(log) : log[i].k = "configfile.set"

\* C16: calibrated_z_offset changes only in a calibrate that completes without
\* error or in a save; a calibrate that ends with an error, in its loop or in
\* any later step, and every probe, home, measure_offset and load_offset leave
\* it as it was and write nothing to the config.
C16_OffsetChangesOnlyOnSuccess ==
    (\/ top = "AUTO_Z_CALIBRATE" /\ pc = "error"
     \/ top \in {"AUTO_Z_PROBE", "AUTO_Z_HOME_Z", "AUTO_Z_MEASURE_OFFSET",
                 "AUTO_Z_LOAD_OFFSET"})
        => (SameOffset(calibrated_z_offset, pre_cal) /\ ~ConfigWritten)

Prepares == {i \in 1..Len(log) : log[i].k = "prepare"}

\* Its bed-sensor probing moves
ProbingMoves == {i \in 1..Len(log) : log[i].k = "probing_move"}

\* C19: during one calibrate the prepare routine is executed exactly once,
\* before the first bed-sensor probing move, and none of the nested bed-sensor
\* probes executes it again; outside calibrate every bed-sensor probe command
\* executes it once.
C19_PrepareOncePerProbe ==
    /\ top = "AUTO_Z_CALIBRATE" =>
          /\ Cardinality(Prepares) <= 1
          /\ ProbingMoves # {} =>
                \E i \in Prepares : \A j \in ProbingMoves : i < j
    /\ (top \in {"AUTO_Z_PROBE", "AUTO_Z_HOME_Z", "AUTO_Z_MEASURE_OFFSET"}
            /\ ProbingMoves # {}) =>
          /\ Cardinality(Prepares) = 1
          /\ \E i \in Prepares : \A j \in ProbingMoves : i < j

\* A bed-sensor probing move of the running command failed to trigger
ProbeFaulted == \E i \in ProbingMoves : ~log[i].ok

\* C20: a probing move that fails to trigger is never retried or averaged
\* over: after the fault the command makes no further probing move, the fault
\* adds no value to the samples or to calibrate's running sum, and the error
\* propagates to the command's caller, which aborts the remaining runs of an
\* enclosing calibrate.
C20_FaultedMoveNotRetried ==
    [][ProbeFaulted =>
          /\ exc /\ pc # "done"
          /\ \A i, j \in ProbingMoves : ~log[i].ok => j <= i
          /\ \/ top' = "idle" /\ pc = "error"
             \/ /\ top' = top /\ exc'
                /\ pc' \in {"p_unaccel", "p_finally", "cal_finally", "error"}
                /\ session_moves' = session_moves
                /\ bed_z' = bed_z /\ last_z' = last_z /\ ret' = ret
                /\ runs' = runs /\ offset_total' = offset_total
                /\ run_i' = run_i
      ]_vars

C20_Witness ==
    /\ ProbeFaulted /\ top = "AUTO_Z_CALIBRATE" /\ pc = "error"
    /\ offset_samples = 2 /\ Len(runs) = 1 /\ offset_total = runs[1]
    /\ fault = "probing_move"

\* C21: calibrate sets the active Z offset to 0 before its first probing move,
\* and the active offset stays 0 through all measurement runs: no non-zero
\* offset is applied until all offset_samples runs have completed.
C21_OffsetZeroDuringRuns ==
    top = "AUTO_Z_CALIBRATE" =>
        /\ ProbingMoves # {} =>
              /\ log[1].k = "SET_GCODE_OFFSET" /\ log[1].ok
              /\ pc \notin {"cal_store", "done"} => gcode_offset = 0
        /\ \A i \in 2..Len(log) :
              (log[i].k = "SET_GCODE_OFFSET" /\ log[i].v # 0)
                  => Len(runs) = offset_samples

C21_Witness ==
    /\ top = "AUTO_Z_CALIBRATE" /\ ncmds = 2 /\ config_value < 0
    /\ ProbingMoves # {} /\ Len(runs) = 1 /\ offset_samples = 2
    /\ gcode_offset = 0

\* A calibrate is between its initial reduce() and its cleanup
InCalibrateLoop ==
    /\ top = "AUTO_Z_CALIBRATE"
    /\ pc \notin {"cal_clear", "cal_prepare", "cal_reduce", "cal_center",
                  "cal_apply", "cal_store", "done", "error"}

\* C27: in every reachable state hold = true implies is_reduced = true, and
\* hold is true only while a calibrate is in progress between its initial
\* reduce() and its cleanup; between commands hold is always false.
C27_HoldOnlyInsideCalibrate ==
    /\ hold => is_reduced
    /\ hold => InCalibrateLoop
    /\ top = "idle" => ~hold

C27_Witness ==
    /\ hold /\ InCalibrateLoop /\ pc = "p_finally"
    /\ Len(runs) = 1 /\ ncmds = 2

\* A calibrate has ended with an error raised inside its measurement loop
FailedInLoop ==
    /\ top = "AUTO_Z_CALIBRATE" /\ pc = "error"
    /\ \E i \in 1..Len(log) : log[i].k = "center"
    /\ Len(runs) < offset_samples

\* C28: after a calibrate that fails in its measurement loop the active Z
\* offset is 0 (the clearing at the start is not rolled back) while
\* calibrated_z_offset still holds its value from before the call, so the two
\* differ whenever that value was not zero.
C28_FailedLoopLeavesOffsetCleared ==
    FailedInLoop =>
        /\ gcode_offset = 0
        /\ SameOffset(calibrated_z_offset, pre_cal)
        /\ pre_cal.num # 0 => gcode_offset # Fmt6(calibrated_z_offset)

C28_Witness ==
    /\ FailedInLoop /\ pre_cal.num # 0 /\ config_value = Fmt6(pre_cal)
    /\ Len(runs) = 1

\* C29: the bed reading subtracted in each measure_offset run is the one the
\* bed-sensor probe of that same run produced; a stale reading of an earlier
\* run or command is never combined with a new reference reading, because a
\* failed bed probe aborts the run before the reference probe.
C29_BedReadingOfSameRun ==
    /\ (pc \in {"m_ind", "m_lift2"}) =>
          /\ bed_fresh /\ ~exc /\ nfaults = 0
          /\ last_z = RecordedZ(variant, bed_z, z_offset)
          /\ MovesOfThisCall # {}
    /\ MeasureComputed => ret = TrueOffset(last_z, log[Len(log) - 1].v)

C29_Witness ==
    /\ MeasureComputed /\ top = "AUTO_Z_MEASURE_OFFSET" /\ ncmds = 2
    /\ bed_fresh /\ bed_z = 300 /\ ret = last_z - 50

(* Properties of the toolhead's moves (SpecMotion) *)

\* The moves to the reference point made so far in the running command
CenterMoves == {i \in 1..Len(path) : path[i].k = "center"}

\* The toolhead changes its X or its Y in the move m
TravelsXY(m) == m.from.x # m.to.x \/ m.from.y # m.to.y

\* C24: every move to the reference point targets Z = max(current_z,
\* probe_hop), never lowers the toolhead, and never travels in XY at a Z below
\* probe_hop: a move that changes X or Y starts at probe_hop or above.
C24_CenterMoveAtSafeZ ==
    \A i \in CenterMoves :
        /\ path[i].to.z = SafeZ(path[i].from.z, Machine.probe_hop)
        /\ path[i].to.z >= path[i].from.z
        /\ TravelsXY(path[i]) => path[i].from.z >= Machine.probe_hop

\* The part of C24 that the code keeps: the target and never lowering
C24_TargetNeverLower ==
    \A i \in CenterMoves :
        /\ path[i].to.z = SafeZ(path[i].from.z, Machine.probe_hop)
        /\ path[i].to.z >= path[i].from.z
        /\ path[i].to.z >= Machine.probe_hop

\* The steps of a measure_offset run among the external calls of the command
IsRunStep(e) == e.k \in {"center", "probing_move", "lift", "xy", "PROBE"}

RunSteps == SelectSeq(log, IsRunStep)

\* Where a run is after a step of kind k made at ph, in the order move to the
\* reference point, bed probe (one or more probing moves), lift, reposition,
\* reference probe, lift
StepAfter(ph, k) ==
    CASE ph = "returned" /\ k = "center" -> "at_reference"
      [] ph \in {"at_reference", "bed_probed"} /\ k = "probing_move" -> "bed_probed"
      [] ph = "bed_probed" /\ k = "lift" -> "lifted"
      [] ph = "lifted" /\ k = "xy" -> "repositioned"
      [] ph = "repositioned" /\ k = "PROBE" -> "computed"
      [] ph = "computed" /\ k = "lift" -> "returned"
      [] OTHER -> "out_of_order"

\* Where the run is after the first n steps; a step that raised ends them
RECURSIVE RunPhase(_, _)
RunPhase(steps, n) ==
    IF n = 0 THEN "returned"
    ELSE LET before == RunPhase(steps, n - 1)
             after == StepAfter(before, steps[n].k)
         IN  IF after = "out_of_order" \/ steps[n].ok THEN after ELSE "raised"

Phase == RunPhase(RunSteps, Len(RunSteps))

\* The runs that made their final lift
CompletedRuns ==
    {i \in 2..Len(RunSteps) :
        RunSteps[i].k = "lift" /\ RunSteps[i].ok /\ RunSteps[i - 1].k = "PROBE"}

\* C22: every measure_offset run makes its steps in the order move to the
\* reference point, bed probe, lift by probe_hop, reposition to (reference.x -
\* sensor_x_offset, reference.y - sensor_y_offset), reference probe,
\* difference, lift by probe_hop: the reference probe starts only after the
\* bed probe, the lift and the reposition of the same run, and the run returns
\* its result only after the final lift.
C22_MeasureStepsInOrder ==
    top \in {"AUTO_Z_MEASURE_OFFSET", "AUTO_Z_CALIBRATE"} =>
        /\ Phase # "out_of_order"
        /\ pc = "m_ind" => Phase = "repositioned"
        /\ pc = "m_lift2" => Phase = "computed"
        /\ Len(runs) = Cardinality(CompletedRuns)
        /\ (top = "AUTO_Z_MEASURE_OFFSET" /\ pc = "done")
              => (Phase = "returned" /\ Len(runs) = 1)
        /\ \A i \in 1..Len(path) :
              /\ path[i].k = "xy" =>
                    /\ path[i].to.x = Machine.center_x - Machine.x_offset
                    /\ path[i].to.y = Machine.center_y - Machine.y_offset
                    /\ path[i].to.z = path[i].from.z
              /\ path[i].k = "lift" =>
                    /\ path[i].to.z = path[i].from.z + Machine.probe_hop
                    /\ ~TravelsXY(path[i])

C22_Witness ==
    /\ top = "AUTO_Z_CALIBRATE" /\ pc = "cal_apply" /\ ~exc
    /\ Len(runs) = 2 /\ Phase = "at_reference"
    /\ Len(path) = 9
    /\ path[3].k = "xy" /\ path[3].ok /\ TravelsXY(path[3])

(* Properties of load_offset and save_offset (SpecOffsets) *)

\* C17: load_offset called twice in a row, with no calibrate or save between,
\* applies the same value both times, leaves calibrated_z_offset unchanged and
\* writes nothing to the config.
C17_LoadTwiceAppliesSameValue ==
    /\ \A i, j \in 1..Len(loaded) : loaded[i] = loaded[j]
    /\ top = "AUTO_Z_LOAD_OFFSET" =>
          (SameOffset(calibrated_z_offset, pre_cal) /\ ~ConfigWritten)
    /\ (top = "AUTO_Z_LOAD_OFFSET" /\ pc = "done") =>
          (gcode_offset = Last(loaded) /\ gcode_offset = Fmt6(calibrated_z_offset))

C17_Witness ==
    /\ top = "AUTO_Z_LOAD_OFFSET" /\ pc = "done" /\ ncmds = 2
    /\ loaded = <<-250000, -250000>>

=============================================================================
